---- MODULE Spec2Model ----
(***************************************************************************)
(* A model of the two vault utilities of obsidian-tools:                   *)
(*   todo_migrator.py          (TodoMigrator)                              *)
(*   weekly_notes_archiver.py  (WeeklyNotesArchiver)                       *)
(* Text is modelled at character level: a string is a sequence of          *)
(* one-character strings, a note is such a sequence with "\n" separators.  *)
(***************************************************************************)
EXTENDS Integers, Sequences, FiniteSets, TLC

(***************************************************************************)
(* Bounds of the model.                                                    *)
(***************************************************************************)
MaxLines == 4
MaxDays == 7
MaxTod == 1
MaxWeeksAgo == 2
MaxBatch == 3
MaxRuns == 2

(***************************************************************************)
(* Characters and the regular expressions of the source.                   *)
(***************************************************************************)
NL == "\n"

\* the characters \s matches, among those the model's texts hold
WS == {" ", "\t"}

Digits == {"0", "1", "2", "3", "4", "5", "6", "7", "8", "9"}

DigitSeq == <<"0", "1", "2", "3", "4", "5", "6", "7", "8", "9">>

UpperSeq == <<"A", "B", "C", "D", "E", "F", "G", "H", "I", "J", "K", "L", "M",
              "N", "O", "P", "Q", "R", "S", "T", "U", "V", "W", "X", "Y", "Z">>

LowerSeq == <<"a", "b", "c", "d", "e", "f", "g", "h", "i", "j", "k", "l", "m",
              "n", "o", "p", "q", "r", "s", "t", "u", "v", "w", "x", "y", "z">>

\* str.lower() of one character (also the case folding of re.IGNORECASE)
Lower(c) ==
    IF \E i \in 1..26 : UpperSeq[i] = c
    THEN LowerSeq[CHOOSE i \in 1..26 : UpperSeq[i] = c]
    ELSE c

LowerStr(s) == [i \in 1..Len(s) |-> Lower(s[i])]

\* s[i..] begins with the literal p
StartsAt(s, i, p) ==
    /\ i >= 1
    /\ i + Len(p) - 1 <= Len(s)
    /\ \A k \in 1..Len(p) : s[i + k - 1] = p[k]

\* the same, ignoring case (p is lower case)
StartsAtI(s, i, p) ==
    /\ i >= 1
    /\ i + Len(p) - 1 <= Len(s)
    /\ \A k \in 1..Len(p) : Lower(s[i + k - 1]) = p[k]

\* the position after the greedy run \s* that starts at i
RECURSIVE SkipWS(_, _)
SkipWS(s, i) ==
    IF i <= Len(s) /\ s[i] \in WS THEN SkipWS(s, i + 1) ELSE i

\* line.strip(): truthy when the line holds a non-blank character
Strip(line) == \E i \in 1..Len(line) : line[i] \notin WS

\* the n-th smallest element of a set of integers
NthOf(S, n) == CHOOSE k \in S : Cardinality({j \in S : j <= k}) = n

\* s.split(sep) for a one-character separator: the pieces between
\* consecutive separators
SplitOn(s, sep) ==
    LET at     == {i \in 1..Len(s) : s[i] = sep}
        starts == {0} \cup at
        ends   == at \cup {Len(s) + 1}
        nth(S, n) == CHOOSE k \in S : Cardinality({j \in S : j <= k}) = n
    IN [n \in 1..(Cardinality(at) + 1) |->
           SubSeq(s, nth(starts, n) + 1, nth(ends, n) - 1)]

\* content.split('\n')
Split(s) == SplitOn(s, NL)

\* '\n'.join(lines)
RECURSIVE Join(_)
Join(ls) ==
    IF Len(ls) = 0 THEN <<>>
    ELSE IF Len(ls) = 1 THEN ls[1]
    ELSE ls[1] \o <<NL>> \o Join(Tail(ls))

\* re.match(r'^##\s+To\s+do\s*$', line, re.IGNORECASE)
IsTodoHeading(line) ==
    /\ StartsAt(line, 1, <<"#", "#">>)
    /\ LET a == SkipWS(line, 3)
       IN /\ a > 3
          /\ StartsAtI(line, a, <<"t", "o">>)
          /\ LET b == SkipWS(line, a + 2)
             IN /\ b > a + 2
                /\ StartsAtI(line, b, <<"d", "o">>)
                /\ SkipWS(line, b + 2) = Len(line) + 1

\* re.match(r'^##\s+', line)
IsSectionHeading(line) ==
    /\ StartsAt(line, 1, <<"#", "#">>)
    /\ SkipWS(line, 3) > 3

\* re.match(r'^(\s*)- \[([ x])\] (.+)$', line): the match, or NoMatch
NoMatch == [matched |-> FALSE]

TodoMatch(line) ==
    LET i == SkipWS(line, 1)
    IN IF /\ StartsAt(line, i, <<"-", " ", "[">>)
          /\ i + 3 <= Len(line)
          /\ line[i + 3] \in {" ", "x"}
          /\ StartsAt(line, i + 4, <<"]", " ">>)
          /\ Len(line) >= i + 6
       THEN [matched |-> TRUE,
             group1  |-> SubSeq(line, 1, i - 1),
             group2  |-> line[i + 3],
             group3  |-> SubSeq(line, i + 6, Len(line))]
       ELSE NoMatch

\* re.match(r'^\s*- \[', line)
LooksLikeTodo(line) == StartsAt(line, SkipWS(line, 1), <<"-", " ", "[">>)

\* \(from \d{4}-\d{2}-\d{2}\) matches at position i of text
DateTagAt(text, i) ==
    /\ i + 16 <= Len(text)
    /\ StartsAt(text, i, <<"(", "f", "r", "o", "m", " ">>)
    /\ \A k \in {6, 7, 8, 9, 11, 12, 14, 15} : text[i + k] \in Digits
    /\ text[i + 10] = "-"
    /\ text[i + 13] = "-"
    /\ text[i + 16] = ")"

\* re.search(r'\(from \d{4}-\d{2}-\d{2}\)', text)
HasDateTag(text) == \E i \in 1..Len(text) : DateTagAt(text, i)

(***************************************************************************)
(* Dates. A datetime is [day |-> proleptic Gregorian ordinal,              *)
(* tod |-> time of day]; timedelta(days=k) moves the day only.             *)
(***************************************************************************)
\* date.toordinal() of year-month-day (the calendar of the datetime module)
DaysFromCivil(y, m, d) ==
    LET yy  == IF m <= 2 THEN y - 1 ELSE y
        era == yy \div 400
        yoe == yy - era * 400
        mp  == IF m > 2 THEN m - 3 ELSE m + 9
        doy == (153 * mp + 2) \div 5 + d - 1
        doe == yoe * 365 + yoe \div 4 - yoe \div 100 + doy
    IN era * 146097 + doe - 305

\* the year, month and day of an ordinal
CivilFromDays(n) ==
    LET z   == n + 305
        era == z \div 146097
        doe == z - era * 146097
        yoe == (doe - doe \div 1460 + doe \div 36524 - doe \div 146096) \div 365
        doy == doe - (365 * yoe + yoe \div 4 - yoe \div 100)
        mp  == (5 * doy + 2) \div 153
        d   == doy - (153 * mp + 2) \div 5 + 1
        m   == IF mp < 10 THEN mp + 3 ELSE mp - 9
        y   == yoe + era * 400 + (IF m <= 2 THEN 1 ELSE 0)
    IN [y |-> y, m |-> m, d |-> d]

DaysInMonth(y, m) ==
    IF m = 2
    THEN (IF (y % 4 = 0 /\ y % 100 # 0) \/ y % 400 = 0 THEN 29 ELSE 28)
    ELSE IF m \in {4, 6, 9, 11} THEN 30 ELSE 31

\* n written with w digits, zero padded
RECURSIVE Pad(_, _)
Pad(n, w) ==
    IF w = 0 THEN <<>> ELSE Append(Pad(n \div 10, w - 1), DigitSeq[(n % 10) + 1])

\* dt.strftime("%Y-%m-%d")
Strftime(dt) ==
    LET c == CivilFromDays(dt.day)
    IN Pad(c.y, 4) \o <<"-">> \o Pad(c.m, 2) \o <<"-">> \o Pad(c.d, 2)

\* dt.weekday(): Monday is 0, Sunday is 6
Weekday(dt) == (dt.day + 6) % 7

\* dt - timedelta(days=k)
MinusDays(dt, k) == [dt EXCEPT !.day = dt.day - k]

\* dt1 <= dt2
DtLeq(a, b) == a.day < b.day \/ (a.day = b.day /\ a.tod <= b.tod)

\* the number a string of digits denotes
RECURSIVE NumVal(_)
NumVal(ds) ==
    IF ds = <<>> THEN 0
    ELSE 10 * NumVal(SubSeq(ds, 1, Len(ds) - 1))
         + (CHOOSE v \in 0..9 : DigitSeq[v + 1] = ds[Len(ds)])

AllDigits(ds) == \A i \in 1..Len(ds) : ds[i] \in Digits

\* datetime.strptime(s, '%Y-%m-%d'): four digits, one or two digits for the
\* month and for the day, a date of the calendar; the time is 00:00
Invalid == [valid |-> FALSE]

Strptime(s) ==
    LET f == SplitOn(s, "-")
    IN IF /\ Len(f) = 3
          /\ Len(f[1]) = 4 /\ AllDigits(f[1]) /\ NumVal(f[1]) >= 1
          /\ Len(f[2]) \in 1..2 /\ AllDigits(f[2]) /\ NumVal(f[2]) \in 1..12
          /\ Len(f[3]) \in 1..2 /\ AllDigits(f[3])
          /\ NumVal(f[3]) \in 1..DaysInMonth(NumVal(f[1]), NumVal(f[2]))
       THEN [valid |-> TRUE,
             dt |-> [day |-> DaysFromCivil(NumVal(f[1]), NumVal(f[2]), NumVal(f[3])),
                     tod |-> 0]]
       ELSE Invalid

(***************************************************************************)
(* WeeklyNotesArchiver.get_week_range. A week specification is None, a     *)
(* string or an integer: [kind, s, n].                                     *)
(***************************************************************************)
SpecNone   == [kind |-> "none", s |-> <<>>, n |-> 0]
SpecStr(s) == [kind |-> "str", s |-> s, n |-> 0]
SpecInt(n) == [kind |-> "int", s |-> <<>>, n |-> n]

StrLast     == <<"l", "a", "s", "t">>
StrPrevious == <<"p", "r", "e", "v", "i", "o", "u", "s">>
StrCurrent  == <<"c", "u", "r", "r", "e", "n", "t">>
StrThis     == <<"t", "h", "i", "s">>

\* week_spec is None or week_spec in ['last', 'previous']
IsPreviousSpec(week_spec) ==
    \/ week_spec.kind = "none"
    \/ week_spec.kind = "str" /\ week_spec.s \in {StrLast, StrPrevious}

\* week_spec in ['current', 'this']
IsCurrentSpec(week_spec) ==
    week_spec.kind = "str" /\ week_spec.s \in {StrCurrent, StrThis}

\* a plausible slip: the week counted from Sunday
WeekOfFromSunday(target_date) ==
    LET week_start == MinusDays(target_date, (Weekday(target_date) + 1) % 7)
    IN [ok |-> TRUE, target_date |-> target_date,
        week_monday |-> week_start, week_sunday |-> MinusDays(week_start, -6)]

\* the Monday and the Sunday of the week of target_date
WeekOf(target_date) ==
    LET days_since_monday == Weekday(target_date)
        week_monday == MinusDays(target_date, days_since_monday)
        week_sunday == MinusDays(week_monday, -6)
    IN [ok |-> TRUE, target_date |-> target_date,
        week_monday |-> week_monday, week_sunday |-> week_sunday]

\* raise ValueError(...)
WeekError == [ok |-> FALSE]

\* get_week_range(week_spec) when datetime.now() is today
get_week_range(today, week_spec) ==
    IF IsPreviousSpec(week_spec) THEN WeekOf(MinusDays(today, 7))
    ELSE IF IsCurrentSpec(week_spec) THEN WeekOf(today)
    ELSE IF week_spec.kind = "int" THEN WeekOf(MinusDays(today, 7 * week_spec.n))
    ELSE IF week_spec.kind = "str"
    THEN (IF Strptime(week_spec.s).valid THEN WeekOf(Strptime(week_spec.s).dt)
          ELSE WeekError)
    ELSE WeekError

(***************************************************************************)
(* The filesystem: files maps the path of every existing file, a           *)
(* directory and a name, to its content.                                   *)
(***************************************************************************)
Dir(kind, name) == [kind |-> kind, name |-> name]

DVault  == Dir("vault", <<>>)         \* self.vault_path
DAttach == Dir("attachments", <<>>)   \* self.vault_path / "attachments"
DAssets == Dir("assets", <<>>)        \* self.vault_path / "assets"
DDaily  == Dir("daily", <<>>)         \* self.daily_notes_path
DArchive == Dir("archive", <<>>)      \* self.archive_path
WeekDir(name) == Dir("week", name)    \* self.archive_path / name

PathOf(dir, name) == [dir |-> dir, name |-> name]

\* path.exists() of a file
Exists(fs, path) == path \in DOMAIN fs

\* PurePath.suffix of a file name: from the last dot, unless that dot is
\* the first or the last character
Suffix(name) ==
    LET dots == {i \in 1..Len(name) : name[i] = "."}
    IN IF dots = {} THEN <<>>
       ELSE LET i == CHOOSE d \in dots : \A e \in dots : e <= d
            IN IF i > 1 /\ i < Len(name) THEN SubSeq(name, i, Len(name)) ELSE <<>>

\* PurePath.stem
Stem(name) == SubSeq(name, 1, Len(name) - Len(Suffix(name)))

\* str(n) of a positive integer
RECURSIVE NumStr(_)
NumStr(n) ==
    IF n < 10 THEN <<DigitSeq[n + 1]>>
    ELSE Append(NumStr(n \div 10), DigitSeq[(n % 10) + 1])

(***************************************************************************)
(* WeeklyNotesArchiver.move_files_to_archive.                              *)
(***************************************************************************)
\* the loop "while destination.exists()" of move_files_to_archive
RECURSIVE BumpDestination(_, _, _, _, _)
BumpDestination(fs, destination_folder, name, destination, counter) ==
    IF Exists(fs, destination)
    THEN BumpDestination(fs, destination_folder, name,
             PathOf(destination_folder,
                    Stem(name) \o <<"_">> \o NumStr(counter) \o Suffix(name)),
             counter + 1)
    ELSE destination

\* a plausible slip: one suffix is tried, and taken whether free or not
FirstSuffixDestination(fs, destination_folder, name) ==
    IF Exists(fs, PathOf(destination_folder, name))
    THEN PathOf(destination_folder, Stem(name) \o <<"_", "1">> \o Suffix(name))
    ELSE PathOf(destination_folder, name)

\* the destination move_files_to_archive picks for a file named name
FreeDestination(fs, destination_folder, name) ==
    BumpDestination(fs, destination_folder, name,
                    PathOf(destination_folder, name), 1)

\* shutil.move(src, dst): dst, when it exists, is replaced
ShutilMove(fs, src, dst) ==
    [p \in (DOMAIN fs \ {src}) \cup {dst} |-> IF p = dst THEN fs[src] ELSE fs[p]]

\* the loop of move_files_to_archive over files[i..]; failing holds the
\* indices of the files whose shutil.move raises
RECURSIVE MoveLoop(_, _, _, _, _, _, _)
MoveLoop(fs, file_list, i, destination_folder, failing, moved_files, errors) ==
    IF i > Len(file_list)
    THEN [fs |-> fs, moved_files |-> moved_files, errors |-> errors]
    ELSE LET file_path == file_list[i]
         IN IF ~Exists(fs, file_path)
            THEN MoveLoop(fs, file_list, i + 1, destination_folder, failing,
                          moved_files, errors)
            ELSE LET destination ==
                         FreeDestination(fs, destination_folder, file_path.name)
                 IN IF i \in failing
                    THEN MoveLoop(fs, file_list, i + 1, destination_folder, failing,
                                  moved_files, Append(errors, file_path))
                    ELSE MoveLoop(ShutilMove(fs, file_path, destination), file_list,
                                  i + 1, destination_folder, failing,
                                  Append(moved_files, <<file_path, destination>>),
                                  errors)

move_files_to_archive(fs, file_list, destination_folder, failing) ==
    MoveLoop(fs, file_list, 1, destination_folder, failing, <<>>, <<>>)

\* f"Week of {start_date.strftime('%Y-%m-%d')}"
WeekFolderName(start_date) ==
    <<"W", "e", "e", "k", " ", "o", "f", " ">> \o Strftime(start_date)

(***************************************************************************)
(* TodoMigrator: the parser, the grouper, the filter and the formatter.    *)
(***************************************************************************)
\* the loop of parse_todo_section over lines[i..], i counted from 1
RECURSIVE ParseLoop(_, _, _, _)
ParseLoop(lines, i, in_todo_section, todos) ==
    IF i > Len(lines) THEN todos
    ELSE LET line == lines[i]
         IN IF IsTodoHeading(line)
            THEN ParseLoop(lines, i + 1, TRUE, todos)
            ELSE IF in_todo_section /\ IsSectionHeading(line)
            THEN todos
            ELSE IF in_todo_section /\ Strip(line)
            THEN LET todo_match == TodoMatch(line)
                 IN IF todo_match.matched
                    THEN ParseLoop(lines, i + 1, in_todo_section,
                             Append(todos,
                                 [line_num      |-> i - 1,
                                  indent        |-> Len(todo_match.group1),
                                  completed     |-> Lower(todo_match.group2) = "x",
                                  text          |-> todo_match.group3,
                                  original_line |-> line]))
                    ELSE ParseLoop(lines, i + 1, in_todo_section, todos)
            ELSE ParseLoop(lines, i + 1, in_todo_section, todos)

parse_todo_section(content) == ParseLoop(Split(content), 1, FALSE, <<>>)

\* the loop of group_todos_by_hierarchy over todos[i..]
RECURSIVE GroupLoop(_, _, _, _)
GroupLoop(todos, i, groups, current_group) ==
    IF i > Len(todos)
    THEN (IF current_group # <<>> THEN Append(groups, current_group) ELSE groups)
    ELSE IF todos[i].indent = 0
    THEN GroupLoop(todos, i + 1,
             IF current_group # <<>> THEN Append(groups, current_group) ELSE groups,
             <<todos[i]>>)
    ELSE GroupLoop(todos, i + 1, groups, Append(current_group, todos[i]))

\* a plausible slip: sub-items that precede every top-level item are dropped
group_todos_drop_orphans(todos) ==
    LET tops == {i \in 1..Len(todos) : todos[i].indent = 0}
    IN IF tops = {} THEN <<>>
       ELSE GroupLoop(todos, CHOOSE i \in tops : \A j \in tops : i <= j, <<>>, <<>>)

group_todos_by_hierarchy(todos) == GroupLoop(todos, 1, <<>>, <<>>)

\* a plausible slip: all() for any()
should_migrate_group_all(group) ==
    IF group = <<>> THEN FALSE
    ELSE \A k \in 1..Len(group) : ~group[k].completed

should_migrate_group(group) ==
    IF group = <<>> THEN FALSE
    ELSE \E k \in 1..Len(group) : ~group[k].completed

\* [group for group in groups if self.should_migrate_group(group)]
RECURSIVE FilterGroups(_)
FilterGroups(groups) ==
    IF groups = <<>> THEN <<>>
    ELSE IF should_migrate_group(Head(groups))
    THEN <<Head(groups)>> \o FilterGroups(Tail(groups))
    ELSE FilterGroups(Tail(groups))

\* extract_todos_from_note on the text of a readable note
ExtractFromContent(content) ==
    FilterGroups(group_todos_by_hierarchy(parse_todo_section(content)))

Spaces(n) == [i \in 1..n |-> " "]

\* the empty line
Blank == <<>>

\* the items of the groups, in order
RECURSIVE Concat(_)
Concat(ss) == IF ss = <<>> THEN <<>> ELSE Head(ss) \o Concat(Tail(ss))

\* a plausible slip: every migrated item is rendered unchecked
format_migrated_todo_unchecked(todo, date) ==
    LET text == IF ~HasDateTag(todo.text)
                THEN todo.text \o <<" ", "(", "f", "r", "o", "m", " ">> \o Strftime(date) \o <<")">>
                ELSE todo.text
    IN Spaces(todo.indent) \o <<"-", " ", "[", " ", "]", " ">> \o text

\* a plausible slip: the tag appended without looking for one
format_migrated_todo_retag(todo, date) ==
    Spaces(todo.indent) \o <<"-", " ">>
        \o (IF todo.completed THEN <<"[", "x", "]">> ELSE <<"[", " ", "]">>)
        \o <<" ">> \o todo.text
        \o <<" ", "(", "f", "r", "o", "m", " ">> \o Strftime(date) \o <<")">>

format_migrated_todo(todo, original_date) ==
    LET date_str == Strftime(original_date)
        text == IF ~HasDateTag(todo.text)
                THEN todo.text \o <<" ", "(", "f", "r", "o", "m", " ">> \o date_str \o <<")">>
                ELSE todo.text
        checkbox == IF todo.completed THEN <<"[", "x", "]">> ELSE <<"[", " ", "]">>
        indent == Spaces(todo.indent)
    IN indent \o <<"-", " ">> \o checkbox \o <<" ">> \o text

\* the lines of add_todos_to_note that skip the blank lines after the heading
RECURSIVE SkipBlankLines(_, _)
SkipBlankLines(lines, i) ==
    IF i <= Len(lines) /\ ~Strip(lines[i]) THEN SkipBlankLines(lines, i + 1) ELSE i

\* the lines of add_todos_to_note that skip the existing todos
RECURSIVE SkipExistingTodos(_, _)
SkipExistingTodos(lines, i) ==
    IF i > Len(lines) THEN i
    ELSE IF IsSectionHeading(lines[i]) \/ (Strip(lines[i]) /\ ~LooksLikeTodo(lines[i]))
    THEN i
    ELSE IF Strip(lines[i]) THEN SkipExistingTodos(lines, i + 1)
    ELSE i

\* a plausible slip: the blank lines after the heading are not skipped
InsertLineNoBlankSkip(lines, todo_section_line) ==
    SkipExistingTodos(lines, todo_section_line + 1)

\* the insertion point of add_todos_to_note; lines are counted from 1, so
\* the new block goes before lines[InsertLine]
InsertLine(lines, todo_section_line) ==
    SkipExistingTodos(lines, SkipBlankLines(lines, todo_section_line + 1))

\* a plausible slip: the rendered lines put in front of one another
MigratedLinesReversed(todo_groups, date) ==
    LET all == Concat(todo_groups)
    IN [k \in 1..Len(all) |-> format_migrated_todo(all[Len(all) + 1 - k], date)]

\* the rendered lines of the groups, in group order
MigratedLines(todo_groups, date) ==
    LET all == Concat(todo_groups)
    IN [k \in 1..Len(all) |-> format_migrated_todo(all[k], date)]

\* add_todos_to_note on the text read from the note: whether the "To do"
\* section was found, and the text to write back
AddTodosToText(text, todo_groups, date) ==
    LET lines == Split(text)
        heads == {i \in 1..Len(lines) : IsTodoHeading(lines[i])}
    IN IF heads = {} THEN [found |-> FALSE, text |-> text]
       ELSE LET todo_section_line == CHOOSE i \in heads : \A j \in heads : i <= j
                insert_line == InsertLine(lines, todo_section_line)
                rendered == MigratedLines(todo_groups, date)
                block == IF /\ rendered # <<>>
                            /\ insert_line > todo_section_line + 1
                            /\ Strip(lines[insert_line - 1])
                         THEN <<Blank>> \o rendered
                         ELSE rendered
            IN [found |-> TRUE,
                text  |-> Join(SubSeq(lines, 1, insert_line - 1) \o block
                               \o SubSeq(lines, insert_line, Len(lines)))]

(***************************************************************************)
(* TodoMigrator.migrate_todos and main. ds is the set of the directories   *)
(* that exist, fs the files; an absent --from or --to is [given |-> FALSE].*)
(***************************************************************************)
NotGiven == [given |-> FALSE]
Given(dt) == [given |-> TRUE, dt |-> dt]

DotMd == <<".", "m", "d">>

\* get_daily_note_path(date)
get_daily_note_path(fs, date) ==
    LET date_str == Strftime(date)
    IN IF Exists(fs, PathOf(DDaily, date_str)) THEN PathOf(DDaily, date_str)
       ELSE PathOf(DDaily, date_str \o DotMd)

\* the template of create_today_note_if_missing
NoteTemplate(today) ==
    Join(<<(<<"#", " ">> \o Strftime(today)), Blank,
           <<"#", "#", " ", "T", "o", " ", "d", "o">>, Blank, Blank,
           <<"#", "#", " ", "N", "o", "t", "e", "s">>, Blank, Blank>>)

\* what a run leaves behind and returns
Outcome(fs, ds, returned) == [fs |-> fs, dirs |-> ds, returned |-> returned]

\* a plausible slip: a missing source note is reported as a failure
SourceNotFoundFails(fs, ds) == Outcome(fs, ds, FALSE)

\* "Source note not found": return True
SourceNotFound(fs, ds) == Outcome(fs, ds, TRUE)

\* create_today_note_if_missing(note_path); io names the file operation
\* that fails, if any
create_today_note_if_missing(fs, ds, today, note_path, io) ==
    IF Exists(fs, note_path) THEN Outcome(fs, ds, TRUE)
    ELSE IF io = "target_unwritable" THEN Outcome(fs, ds \cup {DVault, DDaily}, FALSE)
    ELSE Outcome([q \in DOMAIN fs \cup {note_path} |->
                     IF q = note_path THEN NoteTemplate(today) ELSE fs[q]],
                 ds \cup {DVault, DDaily}, TRUE)

\* the end of add_todos_to_note: the note written back, or nothing written
WriteNote(fs, ds, note_path, r, io) ==
    IF ~r.found \/ io = "target_unwritable" THEN Outcome(fs, ds, FALSE)
    ELSE Outcome([fs EXCEPT ![note_path] = r.text], ds, TRUE)

\* add_todos_to_note(note_path, todo_groups, original_date) on the disk
add_todos_to_note(fs, ds, note_path, todo_groups, original_date, io) ==
    IF io = "target_unreadable" THEN Outcome(fs, ds, FALSE)
    ELSE WriteNote(fs, ds, note_path,
                   AddTodosToText(fs[note_path], todo_groups, original_date), io)

\* migrate_todos from "Create target note if it doesn't exist"
MigrateInto(created, target_path, incomplete_groups, source_date, io) ==
    IF ~created.returned THEN created
    ELSE add_todos_to_note(created.fs, created.dirs, target_path, incomplete_groups,
                           source_date, io)

\* a plausible slip: the dry-run flag not looked at
MigrateGroupsNoDryRun(fs, ds, today, source_date, target_path, incomplete_groups, dry_run, io) ==
    IF incomplete_groups = <<>> THEN Outcome(fs, ds, TRUE)
    ELSE MigrateInto(create_today_note_if_missing(fs, ds, today, target_path, io),
                     target_path, incomplete_groups, source_date, io)

\* migrate_todos from "if not incomplete_groups"
MigrateGroups(fs, ds, today, source_date, target_path, incomplete_groups, dry_run, io) ==
    IF incomplete_groups = <<>> THEN Outcome(fs, ds, TRUE)
    ELSE IF dry_run THEN Outcome(fs, ds, TRUE)
    ELSE MigrateInto(create_today_note_if_missing(fs, ds, today, target_path, io),
                     target_path, incomplete_groups, source_date, io)

\* migrate_todos from "Check if source note exists"; a source note that
\* cannot be read yields no groups
MigratePaths(fs, ds, today, source_date, source_path, target_path, dry_run, io) ==
    IF ~Exists(fs, source_path) THEN SourceNotFound(fs, ds)
    ELSE MigrateGroups(fs, ds, today, source_date, target_path,
                       IF io = "source_unreadable" THEN <<>>
                       ELSE ExtractFromContent(fs[source_path]),
                       dry_run, io)

\* migrate_todos with both dates known
MigrateDates(fs, ds, today, source_date, target_date, dry_run, io) ==
    MigratePaths(fs, ds, today, source_date, get_daily_note_path(fs, source_date),
                 get_daily_note_path(fs, target_date), dry_run, io)

\* migrate_todos(source_date, target_date, dry_run); io names the file
\* operation that fails, if any
migrate_todos(fs, ds, today, source_arg, target_arg, dry_run, io) ==
    MigrateDates(fs, ds, today,
                 IF source_arg.given THEN source_arg.dt ELSE MinusDays(today, 1),
                 IF target_arg.given THEN target_arg.dt ELSE today,
                 dry_run, io)

\* what a run prints of the things it acts on: the groups of the migrator,
\* the notes and the screenshots of the archiver
NoReport == [groups |-> <<>>, notes |-> <<>>, screenshots |-> {}]

\* the groups migrate_todos shows under "Group i:"
ReportGroups(fs, source_path, io) ==
    IF ~Exists(fs, source_path) \/ io = "source_unreadable" THEN NoReport
    ELSE [NoReport EXCEPT !.groups = ExtractFromContent(fs[source_path])]

MigrateReport(fs, today, source_arg, io) ==
    ReportGroups(fs,
                 get_daily_note_path(fs, IF source_arg.given THEN source_arg.dt
                                         ELSE MinusDays(today, 1)),
                 io)

\* sys.exit(0 if success else 1)
ExitCode(success) == IF success THEN 0 ELSE 1

(***************************************************************************)
(* WeeklyNotesArchiver.archive_week and main.                              *)
(***************************************************************************)
ImageExts ==
    {<<"p", "n", "g">>, <<"j", "p", "g">>, <<"j", "p", "e", "g">>, <<"g", "i", "f">>,
     <<"b", "m", "p">>, <<"t", "i", "f", "f">>, <<"w", "e", "b", "p">>}

\* the end of the match of !\[\[([^]]*\.(png|...))\]\] at i, or 0
EmbedEnd(text, i) ==
    IF ~StartsAt(text, i, <<"!", "[", "[">>) THEN 0
    ELSE LET closes == {j \in (i + 3)..Len(text) : text[j] = "]"}
         IN IF closes = {} THEN 0
            ELSE LET j == CHOOSE c \in closes : \A d \in closes : c <= d
                     name == SubSeq(text, i + 3, j - 1)
                 IN IF /\ j + 1 <= Len(text)
                       /\ text[j + 1] = "]"
                       /\ \E ext \in ImageExts :
                              /\ Len(name) >= Len(ext) + 1
                              /\ LowerStr(SubSeq(name, Len(name) - Len(ext),
                                                 Len(name))) = <<".">> \o ext
                    THEN j + 1
                    ELSE 0

\* screenshot_pattern.findall(content): the names of the leftmost,
\* non-overlapping matches
EmbedNames(text) ==
    LET starts == {i \in 1..Len(text) :
                      /\ EmbedEnd(text, i) > 0
                      /\ \A k \in 1..(i - 1) : EmbedEnd(text, k) # EmbedEnd(text, i)}
    IN {SubSeq(text, i + 3, EmbedEnd(text, i) - 2) : i \in starts}

StrAttachments == <<"a", "t", "t", "a", "c", "h", "m", "e", "n", "t", "s">>
StrAssets      == <<"a", "s", "s", "e", "t", "s">>

\* base / name for a relative name of one or two components; a name in a
\* directory the model does not hold is the path of no file
NoPath == PathOf(Dir("none", <<>>), <<>>)

Under(base, name) ==
    LET parts == SplitOn(name, "/")
    IN IF Len(parts) = 1 THEN PathOf(base, name)
       ELSE IF Len(parts) = 2 /\ base = DVault /\ parts[1] = StrAttachments
       THEN PathOf(DAttach, parts[2])
       ELSE IF Len(parts) = 2 /\ base = DVault /\ parts[1] = StrAssets
       THEN PathOf(DAssets, parts[2])
       ELSE NoPath

\* the first of the possible_paths that exists, as a set of at most one path
ResolveScreenshot(fs, screenshot_name) ==
    LET possible_paths == <<Under(DVault, screenshot_name),
                            Under(DAttach, screenshot_name),
                            Under(DAssets, screenshot_name),
                            Under(DDaily, screenshot_name)>>
        found == {k \in 1..4 : Exists(fs, possible_paths[k])}
    IN IF found = {} THEN {}
       ELSE {possible_paths[CHOOSE k \in found : \A m \in found : k <= m]}

\* find_screenshots_in_notes(note_files), as the set it turns into a list
find_screenshots_in_notes(fs, note_files) ==
    UNION {ResolveScreenshot(fs, nm) :
              nm \in UNION {EmbedNames(fs[note_files[k]]) : k \in 1..Len(note_files)}}

\* the loop of find_daily_notes_for_week over the days named date_strs
DailyNotesNamed(fs, date_strs) ==
    LET days == {k \in DOMAIN date_strs :
                    \/ Exists(fs, PathOf(DDaily, date_strs[k]))
                    \/ Exists(fs, PathOf(DDaily, date_strs[k] \o DotMd))}
    IN [n \in 1..Cardinality(days) |->
           IF Exists(fs, PathOf(DDaily, date_strs[NthOf(days, n)]))
           THEN PathOf(DDaily, date_strs[NthOf(days, n)])
           ELSE PathOf(DDaily, date_strs[NthOf(days, n)] \o DotMd)]

\* find_daily_notes_for_week(start_date, end_date), end_date six days on
find_daily_notes_for_week(fs, start_date) ==
    DailyNotesNamed(fs, [k \in 1..7 |-> Strftime(MinusDays(start_date, 1 - k))])

\* the lists a set of at most two paths can turn into
OrdersOf(S) == {l \in [1..Cardinality(S) -> S] : \A p \in S : \E i \in DOMAIN l : l[i] = p}

\* archive_week from "Create weekly archive folder"
ArchiveInto(ds, week_folder, moved) ==
    Outcome(moved.fs, ds \cup {DArchive, week_folder}, TRUE)

\* archive_week from "if not daily_notes"
ArchiveNotes(fs, ds, start_date, daily_notes, dry_run, order, failing) ==
    IF daily_notes = <<>> THEN Outcome(fs, ds, TRUE)
    ELSE IF dry_run THEN Outcome(fs, ds, TRUE)
    ELSE ArchiveInto(ds, WeekDir(WeekFolderName(start_date)),
                     move_files_to_archive(fs, daily_notes \o order,
                                           WeekDir(WeekFolderName(start_date)),
                                           failing))

\* archive_week from the week range on
ArchiveRange(fs, ds, week, dry_run, order, failing) ==
    IF ~week.ok THEN Outcome(fs, ds, FALSE)
    ELSE ArchiveNotes(fs, ds, week.week_monday,
                      find_daily_notes_for_week(fs, week.week_monday),
                      dry_run, order, failing)

\* archive_week(week_spec, dry_run); order is the order list(set(...)) gave
\* the screenshots, failing the indices of the files whose move raises
archive_week(fs, ds, today, week_spec, dry_run, order, failing) ==
    IF DVault \notin ds THEN Outcome(fs, ds, FALSE)
    ELSE IF DDaily \notin ds THEN Outcome(fs, ds, FALSE)
    ELSE ArchiveRange(fs, ds, get_week_range(today, week_spec), dry_run, order,
                      failing)

\* the screenshots archive_week finds, none when it returns before
ScreenshotsOf(fs, ds, week) ==
    IF week.ok /\ DVault \in ds /\ DDaily \in ds
    THEN find_screenshots_in_notes(fs, find_daily_notes_for_week(fs, week.week_monday))
    ELSE {}

\* the notes and the screenshots archive_week lists
ReportNotes(fs, daily_notes) ==
    [NoReport EXCEPT !.notes = daily_notes,
                     !.screenshots = find_screenshots_in_notes(fs, daily_notes)]

ArchiveReport(fs, ds, week) ==
    IF week.ok /\ DVault \in ds /\ DDaily \in ds
    THEN ReportNotes(fs, find_daily_notes_for_week(fs, week.week_monday))
    ELSE NoReport

\* str.isdigit() of the --week argument
IsDigit(s) == s # <<>> /\ AllDigits(s)

\* main(): the --week argument, absent or a string, as a week specification
WeekSpecOfArg(arg) ==
    IF ~arg.given THEN SpecNone
    ELSE IF IsDigit(arg.s) THEN SpecInt(NumVal(arg.s))
    ELSE SpecStr(arg.s)

(***************************************************************************)
(* The texts the model runs on.                                            *)
(***************************************************************************)
HTodo    == <<"#", "#", " ", "T", "o", " ", "d", "o">>
HTodoAlt == <<"#", "#", " ", " ", "t", "O", "\t", "D", "O", " ">>
HNotes   == <<"#", "#", " ", "N", "o", "t", "e", "s">>
Prose    == <<"n", "o", "t", "e">>

\* a checklist line: indentation, "- [mark] ", text
Item(ws, mark, text) == ws \o <<"-", " ", "[", mark, "]", " ">> \o text

ItemA == Item(<<>>, " ", <<"a">>)
ItemB == Item(<<>>, "x", <<"b">>)
SubC  == Item(<<" ", " ">>, "x", <<"c">>)
SubD  == Item(<<" ", " ">>, " ", <<"d">>)
ItemX == Item(<<>>, "X", <<"e">>)

WsOnly   == <<" ", "\t">>
EmptyBox == <<"-", " ", "[", " ", "]">>

\* the lines of a target note: headings, blank lines, prose, an existing
\* (indented) item, and a checkbox without a text
TargetPool == {HTodo, HNotes, Blank, WsOnly, Prose, SubC, EmptyBox}

ParsePool == {HTodo, HTodoAlt, HNotes, Blank, Prose, ItemA, ItemB, SubC, SubD, ItemX}

\* texts around the provenance tag: tagged, nearly tagged, with inner spaces
Tag0731   == <<"(", "f", "r", "o", "m", " ", "2", "0", "2", "5", "-", "0", "7", "-", "3", "1", ")">>
ShortTag  == <<"(", "f", "r", "o", "m", " ", "2", "0", "2", "5", "-", "8", "-", "1", ")">>
ItemTagged == Item(<<>>, " ", <<"a", " ">> \o Tag0731)
ItemShort  == Item(<<>>, "x", ShortTag)
SubTab     == Item(<<"\t">>, "x", <<" ", "b", " ">>)
SubTagged  == Item(<<" ", " ", " ", " ">>, "x", Tag0731 \o <<"c">>)

FormatPool == {ItemA, SubC, ItemTagged, ItemShort, SubTab, SubTagged}

\* the sequences of at most n lines of a pool
SeqsUpTo(pool, n) == UNION {[1..k -> pool] : k \in 0..n}

\* the first day of the model's calendar window
Day0 == DaysFromCivil(2025, 8, 1)

Midnight(day) == [day |-> day, tod |-> 0]

(***************************************************************************)
(* State.                                                                  *)
(***************************************************************************)
VARIABLES
    pc,                 \* the position of the run
    content,            \* the text of the note read
    original_date,      \* the date of the source note
    todos,              \* parse_todo_section's result
    groups,             \* group_todos_by_hierarchy's result
    incomplete_groups,  \* extract_todos_from_note's result
    migrated_lines,     \* the rendered line of each parsed item
    reparsed,           \* the items parsed back from each rendered line
    note_file,          \* the text of the target note on disk
    todo_groups,        \* the groups handed to add_todos_to_note
    result,             \* what add_todos_to_note returned
    now,                \* the clock: datetime.now()
    week_out,           \* the last call of get_week_range and what it returned
    files,              \* the files of the disk
    move_out,           \* the last call of move_files_to_archive
    dirs,               \* the directories of the disk
    runs,               \* how many times a tool has run
    run                 \* the last run of a tool: its arguments and exit code

pipeVars == <<todos, groups, incomplete_groups, migrated_lines, reparsed>>
noteVars == <<note_file, todo_groups, result>>
weekVars == <<now, week_out>>
moveVars == <<files, move_out>>
vaultVars == <<dirs, runs, run>>

vars == <<pc, content, original_date, pipeVars, noteVars, weekVars, moveVars, vaultVars>>

IdlePipe ==
    /\ todos = <<>>
    /\ groups = <<>>
    /\ incomplete_groups = <<>>
    /\ migrated_lines = <<>>
    /\ reparsed = <<>>

IdleNote ==
    /\ note_file = <<>>
    /\ todo_groups = <<>>
    /\ result = FALSE

NoCall == [called |-> FALSE]

IdleWeek ==
    /\ now = Midnight(Day0)
    /\ week_out = NoCall

\* the empty disk
NoFiles == [p \in {} |-> p]

IdleMove ==
    /\ files = NoFiles
    /\ move_out = NoCall

IdleVault ==
    /\ dirs = {}
    /\ runs = 0
    /\ run = NoCall

\* what the parsing pipeline leaves alone
NotPipe == <<noteVars, weekVars, moveVars, vaultVars>>

\* what add_todos_to_note leaves alone
NotNote == <<pipeVars, weekVars, moveVars, vaultVars>>

\* what get_week_range leaves alone
NotWeek == <<pc, content, original_date, pipeVars, noteVars, moveVars, vaultVars>>

\* what move_files_to_archive leaves alone
NotMove == <<pc, content, original_date, pipeVars, noteVars, weekVars, vaultVars>>

\* what a run of a tool leaves alone
NotVault == <<pc, content, original_date, pipeVars, noteVars, week_out, move_out>>

(***************************************************************************)
(* The parsing pipeline on one note text.                                  *)
(***************************************************************************)
InitParse ==
    /\ pc = "start"
    /\ content \in {Join(ls) : ls \in SeqsUpTo(ParsePool, MaxLines)}
    /\ original_date = Midnight(Day0)
    /\ IdlePipe
    /\ IdleNote
    /\ IdleWeek
    /\ IdleMove
    /\ IdleVault

\* extract_todos_from_note, the note read into content
ExtractTodosFromNote ==
    /\ pc = "start"
    /\ todos' = parse_todo_section(content)
    /\ groups' = group_todos_by_hierarchy(todos')
    /\ incomplete_groups' = FilterGroups(groups')
    /\ pc' = "extracted"
    /\ UNCHANGED <<content, original_date, migrated_lines, reparsed, NotPipe>>

\* format_migrated_todo on every parsed item
FormatTodos ==
    /\ pc = "extracted"
    /\ migrated_lines' =
           [k \in 1..Len(todos) |-> format_migrated_todo(todos[k], original_date)]
    /\ pc' = "formatted"
    /\ UNCHANGED <<content, original_date, todos, groups, incomplete_groups, reparsed,
                   NotPipe>>

\* parse_todo_section on each rendered line under a "## To do" heading
ReparseMigrated ==
    /\ pc = "formatted"
    /\ reparsed' =
           [k \in 1..Len(migrated_lines) |->
                parse_todo_section(Join(<<HTodo, migrated_lines[k]>>))]
    /\ pc' = "reparsed"
    /\ UNCHANGED <<content, original_date, todos, groups, incomplete_groups,
                   migrated_lines, NotPipe>>

NextParse == ExtractTodosFromNote \/ FormatTodos \/ ReparseMigrated

\* the same pipeline on To do sections of tagged and untagged items, for
\* several source dates
FormatDates ==
    {Midnight(DaysFromCivil(2025, 8, 1)), Midnight(DaysFromCivil(2024, 2, 29)),
     Midnight(DaysFromCivil(2025, 12, 31))}

InitFormat ==
    /\ pc = "start"
    /\ content \in {Join(<<HTodo>> \o ls) : ls \in SeqsUpTo(FormatPool, MaxLines - 1)}
    /\ original_date \in FormatDates
    /\ IdlePipe
    /\ IdleNote
    /\ IdleWeek
    /\ IdleMove
    /\ IdleVault

SpecFormat == InitFormat /\ [][NextParse]_vars

SpecParse == InitParse /\ [][NextParse]_vars

(***************************************************************************)
(* add_todos_to_note on one target note.                                   *)
(***************************************************************************)
\* the groups extracted from three source notes: none, one item, a parent
\* with a completed sub-item followed by a second group
InsertGroups ==
    {ExtractFromContent(Join(ls)) :
        ls \in {<<HTodo>>, <<HTodo, ItemA>>, <<HTodo, ItemB, SubD, ItemA>>}}

InitInsert ==
    /\ pc = "start"
    /\ content = <<>>
    /\ original_date = Midnight(Day0)
    /\ IdlePipe
    /\ note_file \in {Join(ls) : ls \in SeqsUpTo(TargetPool, MaxLines)}
    /\ todo_groups \in InsertGroups
    /\ result = FALSE
    /\ IdleWeek
    /\ IdleMove
    /\ IdleVault

\* add_todos_to_note(note_path, todo_groups, original_date); io is what the
\* filesystem does to the read and to the write
AddTodosToNote ==
    /\ pc = "start"
    /\ \E io \in {"ok", "read_error", "write_error"} :
        IF io = "read_error"
        THEN /\ result' = FALSE
             /\ UNCHANGED <<content, note_file>>
        ELSE LET r == AddTodosToText(note_file, todo_groups, original_date)
             IN /\ content' = note_file
                /\ IF r.found /\ io = "ok"
                   THEN note_file' = r.text /\ result' = TRUE
                   ELSE note_file' = note_file /\ result' = FALSE
    /\ pc' = "done"
    /\ UNCHANGED <<original_date, todo_groups, NotNote>>

NextInsert == AddTodosToNote

SpecInsert == InitInsert /\ [][NextInsert]_vars

(***************************************************************************)
(* get_week_range under a running clock.                                   *)
(***************************************************************************)
Str20250806 == <<"2", "0", "2", "5", "-", "0", "8", "-", "0", "6">>
Str202583   == <<"2", "0", "2", "5", "-", "8", "-", "3">>
Str20250230 == <<"2", "0", "2", "5", "-", "0", "2", "-", "3", "0">>
StrNext     == <<"n", "e", "x", "t">>

WeekSpecs ==
    {SpecNone} \cup {SpecInt(n) : n \in -1..MaxWeeksAgo}
    \cup {SpecStr(s) : s \in {StrLast, StrPrevious, StrCurrent, StrThis,
                              Str20250806, Str202583, Str20250230, StrNext}}

Clock == {[day |-> Day0 + d, tod |-> t] : d \in 0..MaxDays, t \in 0..MaxTod}

InitWeek ==
    /\ pc = "start"
    /\ content = <<>>
    /\ original_date = Midnight(Day0)
    /\ IdlePipe
    /\ IdleNote
    /\ now \in Clock
    /\ week_out = NoCall
    /\ IdleMove
    /\ IdleVault

\* a call get_week_range(week_spec)
GetWeekRange ==
    \E week_spec \in WeekSpecs :
        /\ week_out' = [called |-> TRUE, week_spec |-> week_spec, at |-> now,
                        ret |-> get_week_range(now, week_spec)]
        /\ UNCHANGED <<now, NotWeek>>

\* time passes
Tick ==
    /\ \/ now.tod < MaxTod /\ now' = [now EXCEPT !.tod = now.tod + 1]
       \/ now.day < Day0 + MaxDays /\ now' = [day |-> now.day + 1, tod |-> 0]
    /\ UNCHANGED <<week_out, NotWeek>>

NextWeek == GetWeekRange \/ Tick

SpecWeek == InitWeek /\ [][NextWeek]_vars

(***************************************************************************)
(* move_files_to_archive into one archive folder.                          *)
(***************************************************************************)
NameA  == <<"a", ".", "p", "n", "g">>
NameA1 == <<"a", "_", "1", ".", "p", "n", "g">>
NameN  == <<"n">>

MoveFolder == WeekDir(WeekFolderName(Midnight(Day0 - 4)))

\* same-named screenshots in two directories, and a note without suffix
MoveSources ==
    {PathOf(DVault, NameA), PathOf(DAttach, NameA), PathOf(DDaily, NameN)}

\* what the archive folder may hold before
MoveTaken ==
    {PathOf(MoveFolder, NameA), PathOf(MoveFolder, NameA1), PathOf(MoveFolder, NameN)}

\* the lists of at most n distinct paths of S
ListsOf(S, n) ==
    {l \in UNION {[1..k -> S] : k \in 1..n} :
        \A i, j \in 1..Len(l) : i # j => l[i] # l[j]}

\* every file's content names where the file was first, so that a file
\* lost or overwritten shows
InitMove ==
    /\ pc = "start"
    /\ content = <<>>
    /\ original_date = Midnight(Day0)
    /\ IdlePipe
    /\ IdleNote
    /\ IdleWeek
    /\ files \in {[p \in MoveSources \cup S |-> p] : S \in SUBSET MoveTaken}
    /\ move_out = NoCall
    /\ IdleVault

\* a call move_files_to_archive(files, destination_folder), in which the
\* shutil.move of the files at the indices of failing raises
MoveFilesToArchive ==
    \E file_list \in ListsOf(MoveSources, MaxBatch) :
        \E failing \in SUBSET (1..Len(file_list)) :
            LET r == move_files_to_archive(files, file_list, MoveFolder, failing)
            IN /\ files' = r.fs
               /\ move_out' = [called |-> TRUE, file_list |-> file_list,
                               failing |-> failing, before |-> files,
                               moved_files |-> r.moved_files, errors |-> r.errors]
               /\ UNCHANGED NotMove

NextMove == MoveFilesToArchive

SpecMove == InitMove /\ [][NextMove]_vars

(***************************************************************************)
(* The two tools run on one vault, one run after the other.                *)
(***************************************************************************)
Day1 == Midnight(Day0)
Day2 == Midnight(Day0 + 1)
Day3 == Midnight(Day0 + 2)

ItemP == Item(<<>>, " ", <<"p">>)
ItemQ == Item(<<>>, " ", <<"q", " ">> \o Tag0731)
ItemR == Item(<<>>, " ", <<"r">>)
Embed(name) == <<"!", "[", "[">> \o name \o <<"]", "]">>

\* the note of day 1: an untagged item, a tagged one, an embedded image
NoteDay1 == Join(<<HTodo, ItemP, ItemQ, HNotes, Embed(NameA)>>)

\* a note of day 2 with a To do section and an image of the attachments folder
NoteDay2 == Join(<<HTodo, ItemR, Blank, HNotes,
                   Embed(StrAttachments \o <<"/">> \o NameA)>>)

\* a note of day 2 without a To do section
NoteNoTodo == Join(<<HNotes, Prose>>)

NoteName(date) == Strftime(date)
NoteNameMd(date) == Strftime(date) \o DotMd

Disk(ds, fs) == [dirs |-> ds, files |-> fs]

FilesOf(S) == [p \in {e[1] : e \in S} |-> (CHOOSE e \in S : e[1] = p)[2]]

Images ==
    {<<PathOf(DVault, NameA), <<"v">>>>, <<PathOf(DAttach, NameA), <<"t">>>>}

AllDirs == {DVault, DAttach, DDaily}

\* the disks a run may find: no vault, no daily-notes folder, and vaults
\* with the notes of day 1 and day 2 present or missing
Disks ==
    {Disk({}, NoFiles),
     Disk({DVault}, FilesOf({<<PathOf(DVault, NameA), <<"v">>>>})),
     Disk(AllDirs, FilesOf(Images \cup
         {<<PathOf(DDaily, NoteNameMd(Day1)), NoteDay1>>})),
     Disk(AllDirs, FilesOf(Images \cup
         {<<PathOf(DDaily, NoteNameMd(Day1)), NoteDay1>>,
          <<PathOf(DDaily, NoteNameMd(Day2)), NoteDay2>>})),
     Disk(AllDirs, FilesOf(Images \cup
         {<<PathOf(DDaily, NoteNameMd(Day1)), NoteDay1>>,
          <<PathOf(DDaily, NoteName(Day2)), NoteNoTodo>>})),
     Disk(AllDirs, FilesOf(Images \cup
         {<<PathOf(DDaily, NoteNameMd(Day2)), NoteDay2>>}))}

InitVault ==
    /\ pc = "start"
    /\ content = <<>>
    /\ original_date = Midnight(Day0)
    /\ IdlePipe
    /\ IdleNote
    /\ now = [day |-> Day0 + 1, tod |-> MaxTod]
    /\ week_out = NoCall
    /\ move_out = NoCall
    /\ \E d \in Disks : dirs = d.dirs /\ files = d.files
    /\ runs = 0
    /\ run = NoCall

MigrateIo == {"ok", "source_unreadable", "target_unreadable", "target_unwritable"}

NoWeekArg == [given |-> FALSE, s |-> <<>>]
WeekArg(s) == [given |-> TRUE, s |-> s]

WeekArgs ==
    {NoWeekArg, WeekArg(StrCurrent), WeekArg(<<"0">>), WeekArg(Str202583),
     WeekArg(StrNext)}

\* todo_migrator.py: main() with --from, --to and --dry-run as given
MigrateMain ==
    /\ runs < MaxRuns
    /\ \E source_arg \in {NotGiven, Given(Day2)}, target_arg \in {NotGiven, Given(Day3)},
          dry_run \in BOOLEAN, io \in MigrateIo :
          LET r == migrate_todos(files, dirs, now, source_arg, target_arg, dry_run, io)
          IN /\ files' = r.fs
             /\ dirs' = r.dirs
             /\ run' = [called |-> TRUE, tool |-> "migrate", source_arg |-> source_arg,
                        target_arg |-> target_arg, week_arg |-> NoWeekArg,
                        dry_run |-> dry_run, io |-> io, returned |-> r.returned,
                        exit_code |-> ExitCode(r.returned),
                        reported |-> MigrateReport(files, now, source_arg, io)]
    /\ runs' = runs + 1
    /\ UNCHANGED <<now, NotVault>>

\* weekly_notes_archiver.py: main() with --week and --dry-run as given
ArchiveMain ==
    /\ runs < MaxRuns
    /\ \E week_arg \in WeekArgs, dry_run \in BOOLEAN :
          \E order \in OrdersOf(ScreenshotsOf(files, dirs,
                           get_week_range(now, WeekSpecOfArg(week_arg)))),
             failing \in (IF dry_run THEN {{}} ELSE {{}, {1}}) :
                LET r == archive_week(files, dirs, now, WeekSpecOfArg(week_arg),
                                      dry_run, order, failing)
                IN /\ files' = r.fs
                   /\ dirs' = r.dirs
                   /\ run' = [called |-> TRUE, tool |-> "archive",
                              source_arg |-> NotGiven, target_arg |-> NotGiven,
                              week_arg |-> week_arg, dry_run |-> dry_run,
                              io |-> IF failing = {} THEN "ok" ELSE "move_error",
                              returned |-> r.returned,
                              exit_code |-> ExitCode(r.returned),
                              reported |->
                                  ArchiveReport(files, dirs,
                                      get_week_range(now, WeekSpecOfArg(week_arg)))]
    /\ runs' = runs + 1
    /\ UNCHANGED <<now, NotVault>>

Next == MigrateMain \/ ArchiveMain

Spec == InitVault /\ [][Next]_vars


(***************************************************************************)
(* Helpers of the properties.                                              *)
(***************************************************************************)
\* the elements of seq at the indices of S, in ascending order
Pick(seq, S) == [n \in 1..Cardinality(S) |-> seq[NthOf(S, n)]]

EndsWith(s, p) ==
    /\ Len(p) <= Len(s)
    /\ SubSeq(s, Len(s) - Len(p) + 1, Len(s)) = p

Texts(group) == [k \in 1..Len(group) |-> group[k].text]

\* "## To do / - [ ] a / - [x] b /   - [x] c": the scenario of the spec
ScenarioNote == Join(<<HTodo, ItemA, ItemB, SubC>>)

(***************************************************************************)
(* C1: extract_todos_from_note returns exactly the groups that hold an     *)
(* incomplete item, in source order and each with all of its items; a      *)
(* group whose items are all completed is never returned, and the          *)
(* scenario note yields the single group [a].                              *)
(***************************************************************************)
C1_IncompleteIdx ==
    {k \in 1..Len(groups) : \E j \in 1..Len(groups[k]) : ~groups[k][j].completed}

C1_ExtractKeepsIncompleteGroups ==
    pc # "start" =>
        /\ incomplete_groups = Pick(groups, C1_IncompleteIdx)
        /\ \A n \in 1..Len(incomplete_groups) :
               \E j \in 1..Len(incomplete_groups[n]) :
                   ~incomplete_groups[n][j].completed
        /\ (content = ScenarioNote =>
               /\ Len(incomplete_groups) = 1
               /\ Texts(incomplete_groups[1]) = << <<"a">> >>)

\* a group with a completed and an incomplete item is returned whole, next
\* to a fully completed group that is dropped
C1_Witness ==
    /\ pc = "extracted"
    /\ Len(groups) >= 2
    /\ Len(incomplete_groups) = 1
    /\ \E j \in 1..Len(incomplete_groups[1]) : incomplete_groups[1][j].completed
    /\ \E j \in 1..Len(incomplete_groups[1]) : ~incomplete_groups[1][j].completed

(***************************************************************************)
(* C5: group_todos_by_hierarchy partitions its input: the groups           *)
(* concatenate to the input, none is empty, an item of indent 0 always     *)
(* opens a group, an indented item never does, except in a leading group   *)
(* of the indented items that precede every item of indent 0.              *)
(***************************************************************************)
C5_GroupsPartitionInput ==
    pc # "start" =>
        /\ Concat(groups) = todos
        /\ \A k \in 1..Len(groups) :
               /\ groups[k] # <<>>
               /\ \A j \in 2..Len(groups[k]) : groups[k][j].indent > 0
               /\ k > 1 => groups[k][1].indent = 0
        /\ (todos # <<>> /\ todos[1].indent > 0) =>
               (groups # <<>> /\ groups[1][1] = todos[1])

\* indented items before the first top-level item form a leading group
C5_Witness ==
    /\ pc = "extracted"
    /\ Len(groups) = 2
    /\ groups[1][1].indent > 0
    /\ Len(groups[2]) = 2

(***************************************************************************)
(* C2: an item rendered by format_migrated_todo and parsed again under a   *)
(* "## To do" heading has the same indent and the same completed flag,     *)
(* and its text is the original text, followed by " (from YYYY-MM-DD)"     *)
(* when the original text had no provenance tag.                           *)
(***************************************************************************)
C2_TagOf(date) == <<" ", "(", "f", "r", "o", "m", " ">> \o Strftime(date) \o <<")">>

C2_RoundTrip ==
    pc = "reparsed" =>
        \A k \in 1..Len(todos) :
            /\ Len(reparsed[k]) = 1
            /\ reparsed[k][1].indent = todos[k].indent
            /\ reparsed[k][1].completed = todos[k].completed
            /\ reparsed[k][1].text =
                   IF HasDateTag(todos[k].text) THEN todos[k].text
                   ELSE todos[k].text \o C2_TagOf(original_date)
            /\ DateTagAt(C2_TagOf(original_date), 2)

\* a completed, indented item went through the round trip and got its tag
C2_Witness ==
    /\ pc = "reparsed"
    /\ \E k \in 1..Len(todos) :
           /\ todos[k].completed
           /\ todos[k].indent > 0
           /\ ~HasDateTag(todos[k].text)
           /\ reparsed[k][1].completed
           /\ HasDateTag(reparsed[k][1].text)

(***************************************************************************)
(* C4: parse_todo_section returns, in source order, one item for each      *)
(* line between the "To do" heading and the next level-2 heading (or the   *)
(* end) that matches the checklist pattern: optional whitespace, "- [ ]"   *)
(* or "- [x]" with the x in either case, a space and a text. Stated for    *)
(* the texts with at most one "To do" heading.                             *)
(***************************************************************************)
\* the checklist pattern as the claim states it; n is the indentation
C4_Checklist(line, n) ==
    /\ \A i \in 1..n : line[i] \in WS
    /\ StartsAt(line, n + 1, <<"-", " ", "[">>)
    /\ n + 4 <= Len(line)
    /\ line[n + 4] \in {" ", "x", "X"}
    /\ StartsAt(line, n + 5, <<"]", " ">>)
    /\ Len(line) >= n + 7

C4_Expected(lines) ==
    LET heads == {i \in 1..Len(lines) : IsTodoHeading(lines[i])}
    IN IF heads = {} THEN <<>>
       ELSE LET h == NthOf(heads, 1)
                ends == {i \in (h + 1)..Len(lines) : IsSectionHeading(lines[i])}
                e == IF ends = {} THEN Len(lines) + 1 ELSE NthOf(ends, 1)
                idx == {i \in (h + 1)..(e - 1) :
                           \E n \in 0..Len(lines[i]) : C4_Checklist(lines[i], n)}
            IN [k \in 1..Cardinality(idx) |->
                   LET i == NthOf(idx, k)
                       n == CHOOSE n \in 0..Len(lines[i]) : C4_Checklist(lines[i], n)
                   IN [line_num      |-> i - 1,
                       indent        |-> n,
                       completed     |-> lines[i][n + 4] # " ",
                       text          |-> SubSeq(lines[i], n + 7, Len(lines[i])),
                       original_line |-> lines[i]]]

C4_ParseReturnsChecklistLines ==
    (/\ pc # "start"
     /\ Cardinality({i \in 1..Len(Split(content)) : IsTodoHeading(Split(content)[i])}) <= 1)
        => todos = C4_Expected(Split(content))

(***************************************************************************)
(* C6: where add_todos_to_note inserts the new block.                      *)
(***************************************************************************)
\* the first index from i on whose line is not blank, or Len(lines) + 1
C6_AfterBlanks(lines, i) ==
    CHOOSE j \in i..(Len(lines) + 1) :
        /\ j = Len(lines) + 1 \/ Strip(lines[j])
        /\ \A k \in i..(j - 1) : ~Strip(lines[k])

\* a line of the run as the claim has it: it matches the checklist pattern
C6_IsChecklistLine(line) == \E n \in 0..Len(line) : C4_Checklist(line, n)

\* a line of the run as the code has it: not blank, "- [" after whitespace
C6_IsTodoLikeLine(line) == Strip(line) /\ LooksLikeTodo(line)

\* the first index from i on whose line is outside the run of InRun lines
C6_AfterRun(lines, i, InRun(_)) ==
    CHOOSE j \in i..(Len(lines) + 1) :
        /\ j = Len(lines) + 1 \/ ~InRun(lines[j])
        /\ \A k \in i..(j - 1) : InRun(lines[k])

C6_FirstHeading(lines) ==
    CHOOSE i \in 1..Len(lines) :
        /\ IsTodoHeading(lines[i])
        /\ \A j \in 1..(i - 1) : ~IsTodoHeading(lines[j])

\* lines with block inserted before lines[at], after a blank line when sep
C6_Inserted(lines, at, sep, block) ==
    SubSeq(lines, 1, at - 1) \o (IF sep /\ block # <<>> THEN <<Blank>> ELSE <<>>)
        \o block \o SubSeq(lines, at, Len(lines))

\* the written note, given which lines count as existing items
C6_Written(InRun(_)) ==
    LET lines == Split(content)
        b == C6_AfterBlanks(lines, C6_FirstHeading(lines) + 1)
        r == C6_AfterRun(lines, b, InRun)
    IN C6_Inserted(lines, r, r > b, MigratedLines(todo_groups, original_date))

\* C6 as claimed: the block goes after the blank lines and the run of lines
\* matching the checklist pattern that follow the heading, after a blank
\* separator exactly when that run is not empty
C6_InsertAfterChecklistRun ==
    (pc = "done" /\ result) => Split(note_file) = C6_Written(C6_IsChecklistLine)

\* C6 as amended: the run skipped is the run of non-blank lines that start,
\* after optional whitespace, with "- [" (a checkbox without text counts);
\* the block goes after the last line of that run, or after the blank lines
\* that follow the heading when the run is empty, after a blank separator
\* exactly when the run is not empty
C6_InsertAfterTodoLikeRun ==
    (pc = "done" /\ result) => Split(note_file) = C6_Written(C6_IsTodoLikeLine)

\* a block was inserted after skipped blank lines and an existing item, ahead
\* of a line of prose
C6_Witness ==
    /\ pc = "done"
    /\ result
    /\ todo_groups # <<>>
    /\ LET lines == Split(content)
           h == C6_FirstHeading(lines)
           b == C6_AfterBlanks(lines, h + 1)
           r == C6_AfterRun(lines, b, C6_IsTodoLikeLine)
       IN /\ b > h + 1
          /\ r > b
          /\ r <= Len(lines)
          /\ lines[r] = Prose
          /\ Split(note_file)[r] = Blank

(***************************************************************************)
(* C7: get_week_range returns the Monday-Sunday week of the reference      *)
(* date: now - 7 days for None, 'last' and 'previous', now for 'current'   *)
(* and 'this', now - 7N days for an integer N, the given date for          *)
(* 'YYYY-MM-DD'. Monday has weekday index 0 and is the reference minus its *)
(* weekday index, Sunday is Monday + 6 days, Monday <= reference <=        *)
(* Sunday, and resolve(N).Monday = resolve(0).Monday - 7N days.            *)
(***************************************************************************)
\* the reference date the claim names for a call, or NoReference
NoReference == [valid |-> FALSE]

C7_Reference(at, week_spec) ==
    IF week_spec.kind = "none" \/ week_spec = SpecStr(StrLast)
       \/ week_spec = SpecStr(StrPrevious)
    THEN [valid |-> TRUE, dt |-> [day |-> at.day - 7, tod |-> at.tod]]
    ELSE IF week_spec \in {SpecStr(StrCurrent), SpecStr(StrThis)}
    THEN [valid |-> TRUE, dt |-> at]
    ELSE IF week_spec.kind = "int"
    THEN [valid |-> TRUE, dt |-> [day |-> at.day - 7 * week_spec.n, tod |-> at.tod]]
    ELSE IF week_spec = SpecStr(Str20250806)
    THEN [valid |-> TRUE, dt |-> [day |-> Day0 + 5, tod |-> 0]]
    ELSE IF week_spec = SpecStr(Str202583)
    THEN [valid |-> TRUE, dt |-> [day |-> Day0 + 2, tod |-> 0]]
    ELSE NoReference

\* 2025-08-04 is a Monday
C7_KnownMonday == DaysFromCivil(2025, 8, 4)

C7_WeekRange ==
    week_out.called =>
        LET ref == C7_Reference(week_out.at, week_out.week_spec)
            ret == week_out.ret
        IN /\ ret.ok = ref.valid
           /\ ret.ok =>
                /\ (ret.week_monday.day - C7_KnownMonday) % 7 = 0
                /\ Weekday(ret.week_monday) = 0
                /\ ret.week_monday.day = ref.dt.day - Weekday(ref.dt)
                /\ ret.week_sunday.day = ret.week_monday.day + 6
                /\ DtLeq(ret.week_monday, ref.dt)
                /\ DtLeq(ref.dt, ret.week_sunday)
                /\ week_out.week_spec.kind = "int" =>
                       ret.week_monday.day =
                           get_week_range(week_out.at, SpecInt(0)).week_monday.day
                               - 7 * week_out.week_spec.n

\* specifier 2 on a Wednesday: the Monday 14 days before the latest Monday
C7_Witness ==
    /\ week_out.called
    /\ week_out.week_spec = SpecInt(2)
    /\ Weekday(week_out.at) = 2
    /\ week_out.ret.ok
    /\ week_out.ret.week_monday.day = week_out.at.day - 2 - 14

(***************************************************************************)
(* C8: the week boundaries get_week_range returns are date-only: Monday    *)
(* and Sunday carry the time 00:00 for every accepted specifier.           *)
(***************************************************************************)
C8_BoundariesDateOnly ==
    (week_out.called /\ week_out.ret.ok) =>
        /\ week_out.ret.week_monday.tod = 0
        /\ week_out.ret.week_sunday.tod = 0

(***************************************************************************)
(* C9: move_files_to_archive never overwrites a file of the destination    *)
(* folder: a file goes to its own name when that is free, else to          *)
(* stem_k.ext for the smallest k >= 1 that is free; all the files there    *)
(* before and all the files moved are there under distinct names; a        *)
(* failure on one file is reported and the other files are still moved.    *)
(***************************************************************************)
\* name with _k put before its extension
C9_Numbered(name, k) ==
    LET dots == {i \in 2..(Len(name) - 1) : name[i] = "."
                     /\ \A j \in (i + 1)..Len(name) : name[j] # "."}
        cut == IF dots = {} \/ name[Len(name)] = "." THEN Len(name) + 1
               ELSE CHOOSE i \in dots : TRUE
    IN SubSeq(name, 1, cut - 1) \o <<"_", DigitSeq[k + 1]>>
           \o SubSeq(name, cut, Len(name))

\* the names taken in the folder when the i-th moved file is placed
C9_Taken(i) ==
    {p.name : p \in {q \in DOMAIN move_out.before : q.dir = MoveFolder}}
        \cup {move_out.moved_files[j][2].name : j \in 1..(i - 1)}

C9_NoOverwrite ==
    move_out.called =>
        LET before == move_out.before
            moved == move_out.moved_files
            list == move_out.file_list
            present == {i \in 1..Len(list) : list[i] \in DOMAIN before}
        IN /\ \A p \in DOMAIN before :
                  p.dir = MoveFolder => (p \in DOMAIN files /\ files[p] = before[p])
           /\ \A i \in 1..Len(moved) :
                  LET src == moved[i][1]
                      dst == moved[i][2]
                  IN /\ dst.dir = MoveFolder
                     /\ dst.name \notin C9_Taken(i)
                     /\ src.name \notin C9_Taken(i) => dst.name = src.name
                     /\ src.name \in C9_Taken(i) =>
                            \E k \in 1..9 :
                                /\ dst.name = C9_Numbered(src.name, k)
                                /\ \A j \in 1..(k - 1) :
                                       C9_Numbered(src.name, j) \in C9_Taken(i)
                     /\ src \notin DOMAIN files
                     /\ dst \in DOMAIN files
                     /\ files[dst] = before[src]
           /\ [n \in 1..Len(moved) |-> moved[n][1]]
                  = Pick(list, present \ move_out.failing)
           /\ move_out.errors = Pick(list, present \cap move_out.failing)
           /\ \A n \in 1..Len(move_out.errors) :
                  /\ move_out.errors[n] \in DOMAIN files
                  /\ files[move_out.errors[n]] = before[move_out.errors[n]]
           /\ Cardinality(DOMAIN files) = Cardinality(DOMAIN before)
           /\ {files[p] : p \in DOMAIN files} = {before[p] : p \in DOMAIN before}

\* two files named a.png moved in one call in which the move of the note
\* failed: the second lands as a_1.png
C9_Witness ==
    /\ move_out.called
    /\ Len(move_out.errors) = 1
    /\ Len(move_out.moved_files) = 2
    /\ move_out.moved_files[1][2] = PathOf(MoveFolder, NameA)
    /\ move_out.moved_files[2][2] = PathOf(MoveFolder, NameA1)

(***************************************************************************)
(* C10: the not-found conditions of a run, told from the disk the run      *)
(* found and from its arguments.                                           *)
(***************************************************************************)
\* no note of that date in the daily-notes folder, under either name
C10_NoNote(fs, date) ==
    ~\E path \in DOMAIN fs :
        /\ path.dir = DDaily
        /\ path.name \in {Strftime(date), Strftime(date) \o <<".", "m", "d">>}

C10_NoteOf(fs, date) ==
    fs[CHOOSE path \in DOMAIN fs :
           /\ path.dir = DDaily
           /\ \/ path.name = Strftime(date)
              \/ /\ path.name = Strftime(date) \o <<".", "m", "d">>
                 /\ PathOf(DDaily, Strftime(date)) \notin DOMAIN fs]

C10_SourceDate(r, today) ==
    IF r.source_arg.given THEN r.source_arg.dt ELSE [today EXCEPT !.day = @ - 1]

C10_TargetDate(r, today) == IF r.target_arg.given THEN r.target_arg.dt ELSE today

\* the run r of the migrator found no source note
C10_SourceMissing(r, fs, today) ==
    r.tool = "migrate" /\ C10_NoNote(fs, C10_SourceDate(r, today))

\* the run r of the archiver found no vault or no daily-notes folder
C10_VaultMissing(r, ds) ==
    r.tool = "archive" /\ (DVault \notin ds \/ DDaily \notin ds)

\* the run r of the migrator had items to write, no file operation failed,
\* and the target note is there and has no To do heading
C10_NoTodoSection(r, fs, today) ==
    /\ r.tool = "migrate"
    /\ ~r.dry_run
    /\ r.io = "ok"
    /\ ~C10_NoNote(fs, C10_SourceDate(r, today))
    /\ \E k \in DOMAIN parse_todo_section(C10_NoteOf(fs, C10_SourceDate(r, today))) :
           ~parse_todo_section(C10_NoteOf(fs, C10_SourceDate(r, today)))[k].completed
    /\ ~C10_NoNote(fs, C10_TargetDate(r, today))
    /\ \A k \in DOMAIN Split(C10_NoteOf(fs, C10_TargetDate(r, today))) :
           ~IsTodoHeading(Split(C10_NoteOf(fs, C10_TargetDate(r, today)))[k])

C10_NothingChanged == files' = files /\ dirs' = dirs

\* C10 as stated: a run that finds the source note missing, the vault or
\* its daily-notes folder missing, or the target note without a To do
\* section changes nothing, returns True and exits with code 0.
C10_NotFoundIsSuccess ==
    [][(\/ C10_SourceMissing(run', files, now)
        \/ C10_VaultMissing(run', dirs)
        \/ C10_NoTodoSection(run', files, now))
       => /\ C10_NothingChanged
          /\ run'.returned
          /\ run'.exit_code = 0]_vars

\* C10, amended: every not-found condition leaves the disk as it was; a
\* missing source note ends the migrator with True and exit code 0; a
\* missing vault or daily-notes folder ends the archiver, and a target note
\* without a To do section ends the migrator, with False and exit code 1;
\* the exit code is 0 exactly when the run returned True, else 1.
C10_NotFoundOutcome ==
    [][/\ C10_SourceMissing(run', files, now)
          => C10_NothingChanged /\ run'.returned /\ run'.exit_code = 0
       /\ C10_VaultMissing(run', dirs)
          => C10_NothingChanged /\ ~run'.returned /\ run'.exit_code = 1
       /\ C10_NoTodoSection(run', files, now)
          => C10_NothingChanged /\ ~run'.returned /\ run'.exit_code = 1
       /\ run'.exit_code = (IF run'.returned THEN 0 ELSE 1)]_vars

\* the archiver ran on a vault without daily-notes folder and exited with 1
C10_Witness ==
    /\ run.called
    /\ run.tool = "archive"
    /\ DVault \in dirs
    /\ DDaily \notin dirs
    /\ run.exit_code = 1

(***************************************************************************)
(* C3: the provenance tag along chains of migrations. The item p is born   *)
(* untagged in the note of 2025-08-01, r in the note of 2025-08-02, q      *)
(* carries the tag of 2025-07-31 from the start.                           *)
(***************************************************************************)
C3_Tag(date_str) == <<"(", "f", "r", "o", "m", " ">> \o date_str \o <<")">>

C3_Date0801 == <<"2", "0", "2", "5", "-", "0", "8", "-", "0", "1">>
C3_Date0802 == <<"2", "0", "2", "5", "-", "0", "8", "-", "0", "2">>
C3_Date0803 == <<"2", "0", "2", "5", "-", "0", "8", "-", "0", "3">>
C3_Date0731 == <<"2", "0", "2", "5", "-", "0", "7", "-", "3", "1">>

C3_TagCount(text) == Cardinality({i \in 1..Len(text) : DateTagAt(text, i)})

\* the item texts of a file
C3_TextsOf(path) ==
    {parse_todo_section(files[path])[k].text :
        k \in DOMAIN parse_todo_section(files[path])}

C3_IsNoteOf(path, date_str) ==
    path.name \in {date_str, date_str \o <<".", "m", "d">>}

\* C3: whatever runs came before, every item of every note has at most one
\* tag; an item born untagged is untagged only in the note of its first
\* day and carries exactly the tag of that day everywhere else; an item
\* that had a tag keeps its text.
C3_OneTagOfFirstSource ==
    \A path \in DOMAIN files :
        \A text \in C3_TextsOf(path) :
            /\ C3_TagCount(text) <= 1
            /\ text[1] = "p" =>
                   \/ text = <<"p">> /\ C3_IsNoteOf(path, C3_Date0801)
                   \/ text = <<"p", " ">> \o C3_Tag(C3_Date0801)
            /\ text[1] = "r" =>
                   \/ text = <<"r">> /\ C3_IsNoteOf(path, C3_Date0802)
                   \/ text = <<"r", " ">> \o C3_Tag(C3_Date0802)
            /\ text[1] = "q" => text = <<"q", " ">> \o C3_Tag(C3_Date0731)
            /\ text[1] \in {"p", "q", "r"}

\* the item of day 1 reached the note of day 3 through the note of day 2,
\* with the tag of day 1
C3_Witness ==
    \E path \in DOMAIN files :
        /\ C3_IsNoteOf(path, C3_Date0803)
        /\ <<"p", " ">> \o C3_Tag(C3_Date0801) \in C3_TextsOf(path)
        /\ <<"r", " ">> \o C3_Tag(C3_Date0802) \in C3_TextsOf(path)

(***************************************************************************)
(* C11: a run with --dry-run, against the run without it on the same disk  *)
(* with the same arguments.                                                *)
(***************************************************************************)
C11_SameDisk == files' = files /\ dirs' = dirs

C11_RealMigrate(r) ==
    migrate_todos(files, dirs, now, r.source_arg, r.target_arg, FALSE, r.io)

C11_SourceDate(r) ==
    IF r.source_arg.given THEN r.source_arg.dt ELSE [now EXCEPT !.day = @ - 1]

C11_TargetPath(r) ==
    get_daily_note_path(files, IF r.target_arg.given THEN r.target_arg.dt ELSE now)

\* the lines of the target note before the items are added
C11_OldLines(r) ==
    IF C11_TargetPath(r) \in DOMAIN files THEN Split(files[C11_TargetPath(r)])
    ELSE Split(NoteTemplate(now))

\* the rendered lines of the items the run reported
C11_Lines(r) ==
    UNION {{format_migrated_todo(r.reported.groups[g][k], C11_SourceDate(r)) :
               k \in DOMAIN r.reported.groups[g]} : g \in DOMAIN r.reported.groups}

\* how many items the groups hold
RECURSIVE C11_Count(_)
C11_Count(gs) ==
    IF gs = <<>> THEN 0 ELSE Len(Head(gs)) + C11_Count(Tail(gs))

\* the real run of the migrator writes the reported items, and nothing else
C11_MigrateActsOnReported(r) ==
    LET real == C11_RealMigrate(r)
        new == Split(real.fs[C11_TargetPath(r)])
        old == C11_OldLines(r)
    IN /\ r.reported.groups = <<>> => real.fs = files
       /\ (r.reported.groups # <<>> /\ real.returned) =>
              /\ \A q \in DOMAIN files \ {C11_TargetPath(r)} : real.fs[q] = files[q]
              /\ Len(new) - Len(old) \in
                     {C11_Count(r.reported.groups), C11_Count(r.reported.groups) + 1}
              /\ C11_Lines(r) \subseteq {new[i] : i \in DOMAIN new}
              /\ {new[i] : i \in DOMAIN new} \ {old[i] : i \in DOMAIN old}
                     \subseteq C11_Lines(r) \cup {Blank}

\* the real run of the archiver moves the reported notes and screenshots,
\* and nothing else
C11_ArchiveActsOnReported(r) ==
    \A order \in OrdersOf(r.reported.screenshots) :
        DOMAIN files \ DOMAIN archive_week(files, dirs, now, WeekSpecOfArg(r.week_arg),
                                           FALSE, order, {}).fs
            = {r.reported.notes[i] : i \in DOMAIN r.reported.notes}
              \cup r.reported.screenshots

C11_ActsOnReported(r) ==
    IF r.tool = "migrate" THEN C11_MigrateActsOnReported(r)
    ELSE C11_ArchiveActsOnReported(r)

\* archive_week returns before it looks for notes
C11_ArchiveRefuses(r) ==
    /\ r.tool = "archive"
    /\ \/ DVault \notin dirs
       \/ DDaily \notin dirs
       \/ ~get_week_range(now, WeekSpecOfArg(r.week_arg)).ok

\* C11 as stated: a run with --dry-run leaves files and folders as they
\* were, reports what the run without --dry-run would write or move, and
\* returns True, whatever the input.
C11_DryRunSucceeds ==
    [][run'.dry_run =>
          /\ C11_SameDisk
          /\ C11_ActsOnReported(run')
          /\ run'.returned]_vars

\* C11, amended: a run with --dry-run leaves files and folders as they
\* were and reports what the run without --dry-run would write or move; it
\* returns True, except that archive_week returns False when the vault or
\* the daily-notes folder is missing or the week specification is invalid.
C11_DryRunWritesNothing ==
    [][run'.dry_run =>
          /\ C11_SameDisk
          /\ C11_ActsOnReported(run')
          /\ run'.returned = ~C11_ArchiveRefuses(run')]_vars

\* a dry run of the archiver listed notes and two screenshots, all of them
\* still in place
C11_Witness ==
    /\ run.called
    /\ run.dry_run
    /\ run.tool = "archive"
    /\ run.returned
    /\ Len(run.reported.notes) >= 2
    /\ Cardinality(run.reported.screenshots) = 2
    /\ \A i \in DOMAIN run.reported.notes : run.reported.notes[i] \in DOMAIN files
    /\ run.reported.screenshots \subseteq DOMAIN files

(***************************************************************************)
(* C12: the text add_todos_to_note wrote (note_file) against the text it   *)
(* read (content).                                                         *)
(***************************************************************************)
\* a line that opens a level-2 section
C12_IsHeading2(line) ==
    Len(line) >= 3 /\ line[1] = "#" /\ line[2] = "#" /\ line[3] \in WS

\* the index of the first To do heading among the lines
C12_Heading(lines) ==
    CHOOSE h \in DOMAIN lines :
        /\ IsTodoHeading(lines[h])
        /\ \A j \in 1..(h - 1) : ~IsTodoHeading(lines[j])

\* the items handed over, in group order
C12_Migrated ==
    [n \in 1..Len(Concat(todo_groups)) |-> Concat(todo_groups)[n]]

\* an item as parse_todo_section yields it, without its line number
C12_Item(todo) ==
    [indent |-> todo.indent, completed |-> todo.completed, text |-> todo.text,
     original_line |-> todo.original_line]

C12_ItemsOf(text) ==
    [n \in DOMAIN parse_todo_section(text) |-> C12_Item(parse_todo_section(text)[n])]

\* the item a migrated item is parsed back as
C12_Arrived(todo) ==
    [indent |-> todo.indent, completed |-> todo.completed,
     text |-> IF HasDateTag(todo.text) THEN todo.text
              ELSE todo.text \o <<" ", "(", "f", "r", "o", "m", " ">>
                       \o Strftime(original_date) \o <<")">>,
     original_line |-> format_migrated_todo(todo, original_date)]

\* new is old with block put in after old[i]
C12_InsertedAfter(old, new, i, block) ==
    new = SubSeq(old, 1, i) \o block \o SubSeq(old, i + 1, Len(old))

\* C12: when the target has a To do heading and there are groups to add,
\* the written lines are the lines read with one block put in, the block
\* being an optional blank line and then the rendered items in group order;
\* the block comes after the To do heading with no level-2 heading between
\* the two; parsing the written text yields the items parsed before, in
\* their order, with the migrated items among them.
C12_OnlyInserts ==
    (pc = "done" /\ result /\ todo_groups # <<>>) =>
        LET old == Split(content)
            new == Split(note_file)
            rendered == [n \in DOMAIN C12_Migrated |->
                            format_migrated_todo(C12_Migrated[n], original_date)]
            before == C12_ItemsOf(content)
            after == C12_ItemsOf(note_file)
        IN /\ \E i \in C12_Heading(old)..Len(old), sep \in {<<>>, <<Blank>>} :
                  /\ C12_InsertedAfter(old, new, i, sep \o rendered)
                  /\ \A j \in (C12_Heading(old) + 1)..i : ~C12_IsHeading2(old[j])
           /\ \E k \in 0..Len(before) :
                  C12_InsertedAfter(before, after, k,
                      [n \in DOMAIN C12_Migrated |-> C12_Arrived(C12_Migrated[n])])

\* three items in two groups went into a note that had an item-like line
\* under the heading and a section after it: a blank line came first
C12_Witness ==
    /\ pc = "done"
    /\ result
    /\ Len(C12_Migrated) = 3
    /\ Len(todo_groups) = 2
    /\ Len(Split(note_file)) = Len(Split(content)) + 4
    /\ \E j \in DOMAIN Split(content) :
           j > C12_Heading(Split(content)) /\ C12_IsHeading2(Split(content)[j])

====
